---- MODULE Spec2Model ----
(***************************************************************************)
(* Model of inipp::Ini<char> (src/inipp/inipp.h): the sections map, the    *)
(* error log, the line-by-line parser, the two-phase interpolation, the    *)
(* default-section merge, clear and the serializer.                        *)
(*                                                                         *)
(* A String is a sequence of one-character strings, so that trimming,      *)
(* searching, substring replacement and the ordering of std::map keys are  *)
(* computed character by character, as the code computes them.             *)
(***************************************************************************)
EXTENDS Integers, Sequences, FiniteSets, TLC

VARIABLES
    sections,          \* Ini::sections : name -> (key -> value), a std::map of std::maps
    errors,            \* Ini::errors   : std::list<String>
    pc,                \* "idle", or the call in progress: "parse" / "interpolate"
    is,                \* the unread rest of the stream given to parse
    line,              \* parse's local `line`, trimmed, as last read
    section,           \* parse's local `section`, the current section name
    read,              \* history: the trimmed lines the last parse call has processed
    global_iteration,  \* interpolate's local counter
    changed,           \* interpolate's local flag
    passes,            \* global resolution passes executed by the current interpolate call
    pre,               \* the sections map as it stood when interpolate was called
    os,                \* what the last generate call wrote to its stream
    insertions,        \* history: the <<section, key>> pairs in the order they were inserted
    last,              \* history: the member function called last
    trace,             \* history: the member functions called, in order
    calls              \* number of member-function calls made so far

vars == <<sections, errors, pc, is, line, section, read, global_iteration, changed,
          passes, pre, os, insertions, last, trace, calls>>

-----------------------------------------------------------------------------
(* Characters and strings *)

\* The characters used, each with its code (ASCII): what std::basic_string<char>
\* compares by and what std::isspace classifies.
Ord ==
    ("\t" :> 9) @@ ("\n" :> 10) @@ ("\r" :> 13) @@ (" " :> 32) @@ ("$" :> 36) @@
    ("." :> 46) @@ ("0" :> 48) @@ ("1" :> 49) @@ ("2" :> 50) @@ ("3" :> 51) @@
    ("4" :> 52) @@ ("5" :> 53) @@ ("6" :> 54) @@ ("7" :> 55) @@ ("8" :> 56) @@
    ("9" :> 57) @@ (":" :> 58) @@ (";" :> 59) @@ ("=" :> 61) @@ ("[" :> 91) @@
    ("]" :> 93) @@ ("_" :> 95) @@ ("a" :> 97) @@ ("b" :> 98) @@ ("c" :> 99) @@
    ("d" :> 100) @@ ("e" :> 101) @@ ("f" :> 102) @@ ("i" :> 105) @@ ("k" :> 107) @@
    ("l" :> 108) @@ ("n" :> 110) @@ ("p" :> 112) @@ ("r" :> 114) @@ ("s" :> 115) @@
    ("t" :> 116) @@ ("u" :> 117) @@ ("v" :> 118) @@ ("x" :> 120) @@ ("y" :> 121) @@
    ("z" :> 122) @@ ("{" :> 123) @@ ("}" :> 125)

\* std::isspace(ch, loc) in the "C" locale: space, \t, \n, \v, \f, \r.
isspace(ch) == Ord[ch] = 32 \/ (Ord[ch] >= 9 /\ Ord[ch] <= 13)

char_section_start  == "["
char_section_end    == "]"
char_assign         == "="
char_comment        == ";"
char_interpol       == "$"
char_interpol_start == "{"
char_interpol_sep   == ":"
char_interpol_end   == "}"

max_interpolation_depth == 10

npos == -1

\* std::basic_string::substr(pos, n), positions counted from 0.
substr(s, pos, n) ==
    SubSeq(s, pos + 1, IF pos + n < Len(s) THEN pos + n ELSE Len(s))

\* operator< of std::basic_string<char>: lexicographic by character code.
RECURSIVE StrLess(_, _)
StrLess(a, b) ==
    IF b = <<>> THEN FALSE
    ELSE IF a = <<>> THEN TRUE
    ELSE IF Ord[Head(a)] # Ord[Head(b)] THEN Ord[Head(a)] < Ord[Head(b)]
    ELSE StrLess(Tail(a), Tail(b))

\* detail::ltrim: erase the leading whitespace.
RECURSIVE ltrim(_)
ltrim(s) ==
    IF s # <<>> /\ isspace(Head(s)) THEN ltrim(Tail(s)) ELSE s

\* detail::rtrim: erase the trailing whitespace.
RECURSIVE rtrim(_)
rtrim(s) ==
    IF s # <<>> /\ isspace(s[Len(s)]) THEN rtrim(SubSeq(s, 1, Len(s) - 1)) ELSE s

\* std::basic_string::find_first_of(ch): position of the first ch, or npos.
find_first_of(s, ch) ==
    IF \E i \in 1..Len(s) : s[i] = ch
    THEN (CHOOSE i \in 1..Len(s) : s[i] = ch /\ \A j \in 1..(i - 1) : s[j] # ch) - 1
    ELSE npos

\* std::basic_string::find(from, start_pos): position of the first occurrence of
\* from at or after start_pos, or npos.
find(str, from, start_pos) ==
    LET At(p) == \A i \in 1..Len(from) : str[p + i] = from[i]
        Cand  == {p \in start_pos..(Len(str) - Len(from)) : At(p)}
    IN  IF Cand = {} THEN npos
        ELSE CHOOSE p \in Cand : \A q \in Cand : p <= q

\* The string that detail::replace leaves in str: every occurrence of from found
\* from start_pos on is replaced by to, the search resuming after the inserted text.
RECURSIVE replace_from(_, _, _, _)
replace_from(str, from, to, start_pos) ==
    LET p == find(str, from, start_pos)
    IN  IF p = npos THEN str
        ELSE replace_from(SubSeq(str, 1, p) \o to \o SubSeq(str, p + Len(from) + 1, Len(str)),
                          from, to, p + Len(to))

\* detail::replace: the new string and the returned flag.
replace(str, from, to) ==
    [str |-> replace_from(str, from, to, 0), changed |-> find(str, from, 0) # npos]

\* SortedKeys with a slip: the comparison is reversed, the order is descending.
RECURSIVE SortedKeysDescending(_)
SortedKeysDescending(S) ==
    IF S = {} THEN <<>>
    ELSE LET m == CHOOSE x \in S : \A y \in S \ {x} : StrLess(y, x)
         IN  <<m>> \o SortedKeysDescending(S \ {m})

\* The keys of a std::map in iteration order: ascending by operator<.
RECURSIVE SortedKeys(_)
SortedKeys(S) ==
    IF S = {} THEN <<>>
    ELSE LET m == CHOOSE x \in S : \A y \in S \ {x} : StrLess(x, y)
         IN  <<m>> \o SortedKeys(S \ {m})

-----------------------------------------------------------------------------
(* The sections map *)

\* A std::map with no entries.
EmptyMap == <<>>

\* std::map::operator[] on the sections map: an entry for name is ensured.
Ensure(secs, name) ==
    IF name \in DOMAIN secs THEN secs ELSE secs @@ (name :> EmptyMap)

\* std::map::insert of (key, value) into section name: no effect if key is present.
Insert(secs, name, key, value) ==
    IF key \in DOMAIN secs[name] THEN secs
    ELSE [secs EXCEPT ![name] = @ @@ (key :> value)]

-----------------------------------------------------------------------------
(* parse *)

\* is_comment with a slip: the marker compared with is '#'.
is_comment_hash(ch) == ch = "#"

\* Ini::is_comment: the character is char_comment.
is_comment(ch) == ch = char_comment

\* std::getline: the characters up to the first newline, and the rest of the stream.
getline(stream) ==
    LET p == find_first_of(stream, "\n")
    IN  IF p = npos THEN [line |-> stream, rest |-> <<>>]
        ELSE [line |-> substr(stream, 0, p), rest |-> substr(stream, p + 1, Len(stream))]

\* header_line with a slip: a header without its closing bracket still names the
\* current section.
header_line_unclosed(st, ln) ==
    IF ln[Len(ln)] = char_section_end
    THEN [st EXCEPT !.section = substr(ln, 1, Len(ln) - 2)]
    ELSE [st EXCEPT !.section = substr(ln, 1, Len(ln) - 1),
                    !.errors = Append(st.errors, ln)]

\* header_line with a different design: a well-formed header creates its section.
header_line_creating(st, ln) ==
    IF ln[Len(ln)] = char_section_end
    THEN [st EXCEPT !.section = substr(ln, 1, Len(ln) - 2),
                    !.sections = Ensure(st.sections, substr(ln, 1, Len(ln) - 2))]
    ELSE [st EXCEPT !.errors = Append(st.errors, ln)]

\* header_line with a different design: a header that names an existing section
\* starts that section afresh.
header_line_discarding(st, ln) ==
    IF ln[Len(ln)] = char_section_end
    THEN [st EXCEPT !.section = substr(ln, 1, Len(ln) - 2),
                    !.sections = [n \in DOMAIN st.sections |->
                                     IF n = substr(ln, 1, Len(ln) - 2) THEN EmptyMap
                                     ELSE st.sections[n]]]
    ELSE [st EXCEPT !.errors = Append(st.errors, ln)]

\* header_line with a slip: the closing bracket is kept in the section name.
header_line_keeping_bracket(st, ln) ==
    IF ln[Len(ln)] = char_section_end
    THEN [st EXCEPT !.section = substr(ln, 1, Len(ln) - 1)]
    ELSE [st EXCEPT !.errors = Append(st.errors, ln)]

\* parse's branch for a line that starts with char_section_start. st is the call's
\* state: [sections, errors, section, ins], ins being the pairs inserted by this line.
header_line(st, ln) ==
    IF ln[Len(ln)] = char_section_end
    THEN [st EXCEPT !.section = substr(ln, 1, Len(ln) - 2)]
    ELSE [st EXCEPT !.errors = Append(st.errors, ln)]

\* key_value_line with a slip: a key that is present is overwritten (last wins).
key_value_line_overwriting(st, ln, pos) ==
    LET variable == rtrim(substr(ln, 0, pos))
        value    == ltrim(substr(ln, pos + 1, Len(ln)))
        ensured  == Ensure(st.sections, st.section)
    IN  IF variable \notin DOMAIN ensured[st.section]
        THEN [st EXCEPT !.sections = Insert(ensured, st.section, variable, value),
                        !.ins = <<(<<st.section, variable>>)>>]
        ELSE [st EXCEPT !.sections = [ensured EXCEPT ![st.section][variable] = value]]

\* key_value_line with a slip: the key is not right-trimmed.
key_value_line_raw_key(st, ln, pos) ==
    LET variable == substr(ln, 0, pos)
        value    == ltrim(substr(ln, pos + 1, Len(ln)))
        ensured  == Ensure(st.sections, st.section)
    IN  IF variable \notin DOMAIN ensured[st.section]
        THEN [st EXCEPT !.sections = Insert(ensured, st.section, variable, value),
                        !.ins = <<(<<st.section, variable>>)>>]
        ELSE [st EXCEPT !.sections = ensured, !.errors = Append(st.errors, ln)]

\* key_value_line with a slip: the value is not left-trimmed.
key_value_line_untrimmed(st, ln, pos) ==
    LET variable == rtrim(substr(ln, 0, pos))
        value    == substr(ln, pos + 1, Len(ln))
        ensured  == Ensure(st.sections, st.section)
    IN  IF variable \notin DOMAIN ensured[st.section]
        THEN [st EXCEPT !.sections = Insert(ensured, st.section, variable, value),
                        !.ins = <<(<<st.section, variable>>)>>]
        ELSE [st EXCEPT !.sections = ensured, !.errors = Append(st.errors, ln)]

\* parse's branch for a line with char_assign at pos, pos neither 0 nor npos.
key_value_line(st, ln, pos) ==
    LET variable == rtrim(substr(ln, 0, pos))
        value    == ltrim(substr(ln, pos + 1, Len(ln)))
        ensured  == Ensure(st.sections, st.section)
    IN  IF variable \notin DOMAIN ensured[st.section]
        THEN [st EXCEPT !.sections = Insert(ensured, st.section, variable, value),
                        !.ins = <<(<<st.section, variable>>)>>]
        ELSE [st EXCEPT !.sections = ensured, !.errors = Append(st.errors, ln)]

\* parse_line with a slip: pos is not compared with 0, a line that starts with
\* char_assign is taken as a pair with the empty key.
parse_line_empty_key(st, ln) ==
    LET length == Len(ln)
        pos    == find_first_of(ln, char_assign)
    IN  IF length = 0 THEN st
        ELSE IF is_comment(ln[1]) THEN st
        ELSE IF ln[1] = char_section_start THEN header_line(st, ln)
        ELSE IF pos # npos THEN key_value_line(st, ln, pos)
        ELSE [st EXCEPT !.errors = Append(st.errors, ln)]

\* The body of parse's loop for one trimmed line ln.
parse_line(st, ln) ==
    LET length == Len(ln)
        pos    == find_first_of(ln, char_assign)
    IN  IF length = 0 THEN st
        ELSE IF is_comment(ln[1]) THEN st
        ELSE IF ln[1] = char_section_start THEN header_line(st, ln)
        ELSE IF pos # 0 /\ pos # npos THEN key_value_line(st, ln, pos)
        ELSE [st EXCEPT !.errors = Append(st.errors, ln)]

\* A whole call of parse on stream, st.section being the call's local `section`: the
\* loop reads, trims and processes line after line until std::getline fails.
RECURSIVE parse_loop(_, _)
parse_loop(st, stream) ==
    IF stream = <<>> THEN st
    ELSE LET got == getline(stream)
         IN  parse_loop(parse_line(st, rtrim(ltrim(got.line))), got.rest)

\* Ini::parse called on an Ini object whose members are secs and errs.
parse(secs, errs, stream) ==
    parse_loop([sections |-> secs, errors |-> errs, section |-> <<>>, ins |-> <<>>], stream)

-----------------------------------------------------------------------------
(* interpolate *)

\* local_symbol with a slip: the closing char_interpol_end is left out.
local_symbol_open(name) ==
    <<char_interpol>> \o (<<char_interpol_start>> \o name)

\* Ini::local_symbol: "${name}".
local_symbol(name) ==
    <<char_interpol>> \o (<<char_interpol_start>> \o name \o <<char_interpol_end>>)

\* Ini::global_symbol: "${sec_name:name}".
global_symbol(sec_name, name) ==
    local_symbol(sec_name \o <<char_interpol_sep>> \o name)

\* Ini::local_symbols: for each key of sec, in map order, ("${key}", "${sec_name:key}").
local_symbols(sec_name, sec) ==
    LET ks == SortedKeys(DOMAIN sec)
    IN  [i \in 1..Len(ks) |-> <<local_symbol(ks[i]), global_symbol(sec_name, ks[i])>>]

\* The inner loop of Ini::global_symbols for one section.
section_symbols(sec_name, sec) ==
    LET ks == SortedKeys(DOMAIN sec)
    IN  [i \in 1..Len(ks) |-> <<global_symbol(sec_name, ks[i]), sec[ks[i]]>>]

\* Ini::global_symbols: for each section and key, in map order, ("${section:key}", value).
RECURSIVE symbols_of(_, _)
symbols_of(secs, names) ==
    IF names = <<>> THEN <<>>
    ELSE section_symbols(Head(names), secs[Head(names)]) \o symbols_of(secs, Tail(names))

global_symbols(secs) == symbols_of(secs, SortedKeys(DOMAIN secs))

\* What the outer loop of replace_symbols does to one value: the symbols are applied
\* one after the other, each to the result of the one before; ch is `changed` so far.
\* (A replace that returns false has left the value as it was.)
RECURSIVE apply_symbols(_, _, _)
apply_symbols(syms, val, ch) ==
    IF syms = <<>> THEN [str |-> val, changed |-> ch]
    ELSE LET r == replace(val, Head(syms)[1], Head(syms)[2])
         IN  IF r.changed
             THEN apply_symbols(Tail(syms), r.str, TRUE)
             ELSE apply_symbols(Tail(syms), val, ch)

\* replace_symbols with a different design: a key whose value is empty after the
\* replacements is erased.
replace_symbols_pruning(syms, sec) ==
    [sec     |-> [k \in {x \in DOMAIN sec : apply_symbols(syms, sec[x], FALSE).str # <<>>} |->
                     apply_symbols(syms, sec[k], FALSE).str],
     changed |-> \E k \in DOMAIN sec : apply_symbols(syms, sec[k], FALSE).changed]

\* Ini::replace_symbols: the section after the replacements, and the returned flag.
replace_symbols(syms, sec) ==
    [sec     |-> [k \in DOMAIN sec |-> apply_symbols(syms, sec[k], FALSE).str],
     changed |-> \E k \in DOMAIN sec : apply_symbols(syms, sec[k], FALSE).changed]

\* localize with a slip: the loop is left out.
localize_skipped(secs) == secs

\* The local symbols of all the sections named, one section after the other.
RECURSIVE local_symbols_of(_, _)
local_symbols_of(secs, names) ==
    IF names = <<>> THEN <<>>
    ELSE local_symbols(Head(names), secs[Head(names)]) \o local_symbols_of(secs, Tail(names))

\* localize with a slip: the local symbols of every section are applied to every
\* section.
localize_any(secs) ==
    [n \in DOMAIN secs |->
        replace_symbols(local_symbols_of(secs, SortedKeys(DOMAIN secs)), secs[n]).sec]

\* The first loop of interpolate: each "${variable}" becomes "${section:variable}".
localize(secs) ==
    [n \in DOMAIN secs |-> replace_symbols(local_symbols(n, secs[n]), secs[n]).sec]

\* One execution of the body of interpolate's do-while loop.
global_pass(secs) ==
    LET syms == global_symbols(secs)
    IN  [sections |-> [n \in DOMAIN secs |-> replace_symbols(syms, secs[n]).sec],
         changed  |-> \E n \in DOMAIN secs : replace_symbols(syms, secs[n]).changed]

\* loop_again with a slip: the comparison is reversed, the loop body runs once.
loop_again_reversed(ch, iteration) == ch /\ (max_interpolation_depth < iteration)

\* loop_again with a slip: the depth is not compared at all.
loop_again_uncapped(ch, iteration) == ch

\* The condition of interpolate's do-while loop, global_iteration read before its
\* post-increment.
loop_again(ch, iteration) == ch /\ (max_interpolation_depth > iteration)

-----------------------------------------------------------------------------
(* default_section, generate *)

\* default_merge with a slip: the pairs of sec are assigned, a key that is present
\* takes the default value.
default_merge_overwriting(secs, sec) ==
    [n \in DOMAIN secs |-> [k \in DOMAIN secs[n] \cup DOMAIN sec |->
        IF k \in DOMAIN sec THEN sec[k] ELSE secs[n][k]]]

\* Ini::default_section: every pair of sec is inserted into every section that lacks
\* its key.
default_merge(secs, sec) ==
    [n \in DOMAIN secs |-> [k \in DOMAIN secs[n] \cup DOMAIN sec |->
        IF k \in DOMAIN secs[n] THEN secs[n][k] ELSE sec[k]]]

\* The pairs default_section inserts, in the order it inserts them.
RECURSIVE default_insertions(_, _, _)
default_insertions(secs, names, sec) ==
    IF names = <<>> THEN <<>>
    ELSE LET ks == SelectSeq(SortedKeys(DOMAIN sec),
                             LAMBDA k : k \notin DOMAIN secs[Head(names)])
         IN  [i \in 1..Len(ks) |-> <<Head(names), ks[i]>>]
             \o default_insertions(secs, Tail(names), sec)

\* std::endl.
endl == <<"\n">>

\* The inner loop of generate: the "key=value" lines of one section, in map order.
RECURSIVE generate_values(_, _)
generate_values(sec, ks) ==
    IF ks = <<>> THEN <<>>
    ELSE Head(ks) \o <<char_assign>> \o sec[Head(ks)] \o endl \o generate_values(sec, Tail(ks))

\* The outer loop of generate: "[name]", the section's lines and a blank line, for
\* each section in map order.
RECURSIVE generate_sections(_, _)
generate_sections(secs, names) ==
    IF names = <<>> THEN <<>>
    ELSE <<char_section_start>> \o Head(names) \o <<char_section_end>> \o endl
         \o generate_values(secs[Head(names)], SortedKeys(DOMAIN secs[Head(names)]))
         \o endl
         \o generate_sections(secs, Tail(names))

\* Ini::generate: the text written to the stream.
generate(secs) == generate_sections(secs, SortedKeys(DOMAIN secs))

-----------------------------------------------------------------------------
(* Inputs *)

\* At most this many member-function calls are made on the Ini object.
MaxCalls == 3

\* interpolate is called only while every value is at most this long (a value that
\* refers to itself doubles in every pass).
MaxValueLen == 40

\* The longest chain of sections given to parse: section i refers to section i+1.
ChainLen == 15

\* A text: its lines, each ended by a newline.
RECURSIVE Text(_)
Text(lines) ==
    IF lines = <<>> THEN <<>> ELSE Head(lines) \o <<"\n">> \o Text(Tail(lines))

\* Keys and values: trimming, '=' inside a value, an empty value, a duplicate key,
\* comment and blank lines, lines without a key or without '='.
TextKeys ==
    Text(<< <<"a", "=", " ", "1">>,
            <<" ", "a", " ", "=", " ", "2", "\t">>,
            <<"b", "=", "x", "=", "y">>,
            <<"c", "=">>,
            <<";", " ", "b", "=", "9">>,
            <<" ", " ">>,
            <<"=", "z">>,
            <<"b", "a", "d">>,
            <<"[", "s", "]">>,
            <<"a", "=", "3">> >>)

\* Section headers: malformed, without keys, out of name order, repeated.
TextHeaders ==
    Text(<< <<"[", "b">>,
            <<"x", "=", "1">>,
            <<"[", "b", "]">>,
            <<"y", "=", "2">>,
            <<"x", "=", "3">>,
            <<"[", "t", "]">>,
            <<"[", "a", "]">>,
            <<"y", "=", "4">>,
            <<"[", "b", "]">>,
            <<"x", "=", "5">>,
            <<"k", "=", "6">> >>)

\* References: to another section, to the own section, to a key that only another
\* section has, to a key whose name starts with the name of another key (bc, b) and
\* to a name that starts so but is no key (bd).
TextRefs ==
    Text(<< <<"[", "d", "e", "f", "a", "u", "l", "t", "]">>,
            <<"i", "p", "=", "1", "2", "7", ".", "0", ".", "0", ".", "1">>,
            <<"[", "n", "e", "t", "]">>,
            <<"a", "d", "d", "r", "e", "s", "s", "=", "$", "{", "d", "e", "f", "a", "u", "l",
              "t", ":", "i", "p", "}", ":", "8", "0">>,
            <<"[", "s", "]">>,
            <<"a", "=", "1">>,
            <<"b", "=", "$", "{", "a", "}">>,
            <<"c", "=", "$", "{", "a", "}", "$", "{", "s", ":", "a", "}", "$", "{", "k", "}">>,
            <<"[", "t", "]">>,
            <<"k", "=", "2">>,
            <<"d", "=", "$", "{", "a", "}">>,
            <<"[", "a", "]">>,
            <<"b", "=", "1">>,
            <<"b", "c", "=", "2">>,
            <<"r", "=", "$", "{", "a", ":", "b", "c", "}">>,
            <<"u", "=", "$", "{", "b", "c", "}">>,
            <<"v", "=", "$", "{", "a", ":", "b", "d", "}">> >>)

\* Circular and self-growing references.
TextCycles ==
    Text(<< <<"[", "c", "]">>,
            <<"a", "=", "$", "{", "b", "}">>,
            <<"b", "=", "$", "{", "a", "}">>,
            <<"[", "z", "]">>,
            <<"x", "=", "x", "$", "{", "x", "}">> >>)

\* Sections left and entered again: keys before any header, a header with the empty
\* name, a header that repeats an earlier name, comments that look like a header and
\* like a key=value line, a line of whitespace, whitespace around a key and a value.
TextReopen ==
    Text(<< <<"k", "=", "1">>,
            <<"[", "s", "]">>,
            <<"k", "=", "2">>,
            <<";", "[", "t", "]">>,
            <<"\t">>,
            <<";", "i", "=", "9">>,
            <<"[", "]">>,
            <<"i", "=", "3">>,
            <<"[", "s", "]">>,
            <<"\t", "i", " ", "=", " ", "4", " ">>,
            <<"k", "=", "5">> >>)

\* The decimal digits of a number below 100.
Digits(i) ==
    LET D == <<"0", "1", "2", "3", "4", "5", "6", "7", "8", "9">>
    IN  IF i < 10 THEN <<D[i + 1]>> ELSE <<D[(i \div 10) + 1], D[(i % 10) + 1]>>

\* The name of section i of the chain.
ChainName(i) == <<"s">> \o Digits(i)

\* The lines of sections i..n of a chain: v of section i is "${s(i+1):v}", v of the
\* last section is the literal "0".
RECURSIVE ChainLines(_, _)
ChainLines(i, n) ==
    IF i > n THEN <<>>
    ELSE << <<"[">> \o ChainName(i) \o <<"]">>,
            IF i = n THEN <<"v", "=", "0">>
            ELSE <<"v", "=">> \o global_symbol(ChainName(i + 1), <<"v">>) >>
         \o ChainLines(i + 1, n)

TextChain == Text(ChainLines(1, ChainLen))

\* The texts given to parse.
Texts == {TextKeys, TextHeaders, TextReopen, TextRefs, TextCycles, TextChain}

\* The sections given to default_section.
Defaults == { (<<"a">> :> <<"9">>) @@ (<<"x">> :> <<"1">>) }

-----------------------------------------------------------------------------
(* The Ini object and the calls made on it *)

Init ==
    /\ sections = EmptyMap
    /\ errors = <<>>
    /\ pc = "idle"
    /\ is = <<>>
    /\ line = <<>>
    /\ section = <<>>
    /\ read = <<>>
    /\ global_iteration = 0
    /\ changed = FALSE
    /\ passes = 0
    /\ pre = EmptyMap
    /\ os = <<>>
    /\ insertions = <<>>
    /\ last = "none"
    /\ trace = <<>>
    /\ calls = 0

\* ParseBegin with a different design: the current section is a member that lives on
\* from call to call.
ParseBeginResuming(text) ==
    /\ pc = "idle"
    /\ calls < MaxCalls
    /\ pc' = "parse"
    /\ is' = text
    /\ line' = <<>>
    /\ read' = <<>>
    /\ calls' = calls + 1
    /\ last' = "parse"
    /\ trace' = Append(trace, "parse")
    /\ UNCHANGED <<sections, errors, section, global_iteration, changed, passes, pre, os,
                   insertions>>

\* parse(is) is called: `section` starts empty.
ParseBegin(text) ==
    /\ pc = "idle"
    /\ calls < MaxCalls
    /\ pc' = "parse"
    /\ is' = text
    /\ line' = <<>>
    /\ section' = <<>>
    /\ read' = <<>>
    /\ calls' = calls + 1
    /\ last' = "parse"
    /\ trace' = Append(trace, "parse")
    /\ UNCHANGED <<sections, errors, global_iteration, changed, passes, pre, os, insertions>>

\* One iteration of parse's loop: a line is read, trimmed and processed.
ParseLine ==
    /\ pc = "parse"
    /\ is # <<>>
    /\ \E got \in {getline(is)} :
       \E r \in {parse_line([sections |-> sections, errors |-> errors,
                             section |-> section, ins |-> <<>>],
                            rtrim(ltrim(got.line)))} :
           /\ is' = got.rest
           /\ line' = rtrim(ltrim(got.line))
           /\ sections' = r.sections
           /\ errors' = r.errors
           /\ section' = r.section
           /\ read' = Append(read, rtrim(ltrim(got.line)))
           /\ insertions' = insertions \o r.ins
    /\ UNCHANGED <<pc, global_iteration, changed, passes, pre, os, calls, last, trace>>

\* std::getline fails at the end of the stream: parse returns.
ParseEnd ==
    /\ pc = "parse"
    /\ is = <<>>
    /\ pc' = "idle"
    /\ UNCHANGED <<sections, errors, is, line, section, read, global_iteration, changed,
                   passes, pre, os, insertions, last, trace, calls>>

\* interpolate() is called: the locals are initialised and the localization loop runs.
InterpolateBegin ==
    /\ pc = "idle"
    /\ calls < MaxCalls
    /\ \A n \in DOMAIN sections : \A k \in DOMAIN sections[n] :
           Len(sections[n][k]) <= MaxValueLen
    /\ pc' = "interpolate"
    /\ global_iteration' = 0
    /\ changed' = FALSE
    /\ passes' = 0
    /\ pre' = sections
    /\ sections' = localize(sections)
    /\ calls' = calls + 1
    /\ last' = "interpolate"
    /\ trace' = Append(trace, "interpolate")
    /\ UNCHANGED <<errors, is, line, section, read, os, insertions>>

\* One iteration of interpolate's do-while loop, its condition included.
InterpolatePass ==
    /\ pc = "interpolate"
    /\ \E r \in {global_pass(sections)} :
           /\ sections' = r.sections
           /\ changed' = r.changed
           /\ global_iteration' = IF r.changed THEN global_iteration + 1 ELSE global_iteration
           /\ pc' = IF loop_again(r.changed, global_iteration) THEN "interpolate" ELSE "idle"
    /\ passes' = passes + 1
    /\ UNCHANGED <<errors, is, line, section, read, pre, os, insertions, calls, last,
                   trace>>

\* default_section(sec) is called.
DefaultSection(sec) ==
    /\ pc = "idle"
    /\ calls < MaxCalls
    /\ sections' = default_merge(sections, sec)
    /\ insertions' = insertions \o default_insertions(sections, SortedKeys(DOMAIN sections), sec)
    /\ calls' = calls + 1
    /\ last' = "default_section"
    /\ trace' = Append(trace, "default_section")
    /\ UNCHANGED <<errors, pc, is, line, section, read, global_iteration, changed, passes,
                   pre, os>>

\* Clear with a slip: the error log is not cleared.
ClearSectionsOnly ==
    /\ pc = "idle"
    /\ calls < MaxCalls
    /\ sections' = EmptyMap
    /\ insertions' = <<>>
    /\ calls' = calls + 1
    /\ last' = "clear"
    /\ trace' = Append(trace, "clear")
    /\ UNCHANGED <<errors, pc, is, line, section, read, global_iteration, changed, passes,
                   pre, os>>

\* clear() is called.
Clear ==
    /\ pc = "idle"
    /\ calls < MaxCalls
    /\ sections' = EmptyMap
    /\ errors' = <<>>
    /\ insertions' = <<>>
    /\ calls' = calls + 1
    /\ last' = "clear"
    /\ trace' = Append(trace, "clear")
    /\ UNCHANGED <<pc, is, line, section, read, global_iteration, changed, passes, pre, os>>

\* generate(os) is called on a fresh stream.
Generate ==
    /\ pc = "idle"
    /\ calls < MaxCalls
    /\ os' = generate(sections)
    /\ calls' = calls + 1
    /\ last' = "generate"
    /\ trace' = Append(trace, "generate")
    /\ UNCHANGED <<sections, errors, pc, is, line, section, read, global_iteration, changed,
                   passes, pre, insertions>>

Next ==
    \/ \E text \in Texts : ParseBegin(text)
    \/ ParseLine
    \/ ParseEnd
    \/ InterpolateBegin
    \/ InterpolatePass
    \/ \E sec \in Defaults : DefaultSection(sec)
    \/ Clear
    \/ Generate

Spec == Init /\ [][Next]_vars

-----------------------------------------------------------------------------
(* Properties of parse *)

\* The step is one iteration of parse's loop; line' is then the trimmed line it
\* processed, and the unprimed variables are the state before it.
ParseStep == pc = "parse" /\ is # <<>> /\ is' # is

\* ln has no whitespace at either end.
Trimmed(ln) == ln = <<>> \/ (~isspace(ln[1]) /\ ~isspace(ln[Len(ln)]))

\* ln is raw without the whitespace at its ends.
TrimOf(ln, raw) ==
    /\ Trimmed(ln)
    /\ \E i \in 0..Len(raw) :
          /\ SubSeq(raw, i + 1, i + Len(ln)) = ln
          /\ i + Len(ln) <= Len(raw)
          /\ \A j \in (1..i) \cup ((i + Len(ln) + 1)..Len(raw)) : isspace(raw[j])

\* The line the step reads from the stream: the characters before the first newline.
RawLine(stream) ==
    IF \E i \in 1..Len(stream) : stream[i] = "\n"
    THEN SubSeq(stream, 1, (CHOOSE i \in 1..Len(stream) :
                               stream[i] = "\n" /\ \A j \in 1..(i - 1) : stream[j] # "\n") - 1)
    ELSE stream

\* The index of the first '=' of ln, 0 if there is none.
FirstAssign(ln) ==
    IF \E i \in 1..Len(ln) : ln[i] = "="
    THEN CHOOSE i \in 1..Len(ln) : ln[i] = "=" /\ \A j \in 1..(i - 1) : ln[j] # "="
    ELSE 0

\* ln is a key=value line: not empty, not a comment, not a header, and its first '='
\* exists and is not its first character.
IsKeyValue(ln) ==
    /\ ln # <<>>
    /\ ln[1] # ";"
    /\ ln[1] # "["
    /\ FirstAssign(ln) > 1

\* The key of a key=value line: the text before the first '=', right-trimmed.
KeyOf(ln) == rtrim(SubSeq(ln, 1, FirstAssign(ln) - 1))

\* The value of a key=value line: the text after the first '=', left-trimmed.
ValueOf(ln) == ltrim(SubSeq(ln, FirstAssign(ln) + 1, Len(ln)))

\* key is a key of section name of the map secs.
HasKey(secs, name, key) == name \in DOMAIN secs /\ key \in DOMAIN secs[name]

\* C1: when parse processes a key=value line whose key is already in the current
\* section, the sections map is left as it is (the first value stays) and the line,
\* whitespace-trimmed, is appended to the error log.
C1_DuplicateKeyRejected ==
    [][(ParseStep /\ IsKeyValue(line') /\ HasKey(sections, section, KeyOf(line')))
          => /\ sections' = sections
             /\ TrimOf(line', RawLine(is))
             /\ errors' = Append(errors, line')]_vars

\* The duplicate " a = 2 \t" of TextKeys has just been rejected: a is still 1.
C1_Witness ==
    /\ pc = "parse"
    /\ line = <<"a", " ", "=", " ", "2">>
    /\ errors = << <<"a", " ", "=", " ", "2">> >>
    /\ HasKey(sections, <<>>, <<"a">>)
    /\ sections[<<>>][<<"a">>] = <<"1">>

\* C2: when parse processes a key=value line whose key is not yet in the current
\* section, the current section afterwards maps the key to the left-trimmed text
\* after the first '=', and nothing else in the sections map has changed.
C2_KeyValueInserted ==
    [][(ParseStep /\ IsKeyValue(line') /\ ~HasKey(sections, section, KeyOf(line')))
          => /\ HasKey(sections', section, KeyOf(line'))
             /\ sections'[section][KeyOf(line')] = ValueOf(line')
             /\ DOMAIN sections' = DOMAIN sections \cup {section}
             /\ \A n \in DOMAIN sections' :
                   /\ n # section => sections'[n] = sections[n]
                   /\ n = section =>
                        /\ DOMAIN sections'[n] =
                              {KeyOf(line')} \cup
                              (IF n \in DOMAIN sections THEN DOMAIN sections[n] ELSE {})
                        /\ \A k \in DOMAIN sections'[n] \ {KeyOf(line')} :
                              sections'[n][k] = sections[n][k]]_vars

\* "b=x=y" of TextKeys has just been inserted: the value keeps its own '='. The line
\* before it, "a= 1", gave a the left-trimmed value.
C2_Witness ==
    /\ pc = "parse"
    /\ line = <<"b", "=", "x", "=", "y">>
    /\ HasKey(sections, <<>>, <<"b">>)
    /\ sections[<<>>][<<"b">>] = <<"x", "=", "y">>
    /\ sections[<<>>][<<"a">>] = <<"1">>

\* ln starts with '[' and does not end with ']'.
MalformedHeader(ln) == ln # <<>> /\ ln[1] = "[" /\ ln[Len(ln)] # "]"

\* ln starts with '[' and ends with ']'.
WellFormedHeader(ln) == Len(ln) >= 2 /\ ln[1] = "[" /\ ln[Len(ln)] = "]"

\* The name in a well-formed header.
HeaderName(ln) == SubSeq(ln, 2, Len(ln) - 1)

\* C3: a line that starts with '[' and does not end with ']' is appended to the
\* error log and changes neither the sections map nor the current section.
C3_MalformedHeader ==
    [][(ParseStep /\ MalformedHeader(line'))
          => /\ errors' = Append(errors, line')
             /\ sections' = sections
             /\ section' = section]_vars

\* In TextHeaders "[b" was rejected and the "x=1" after it went into the section that
\* was current before: the empty-named one.
C3_Witness ==
    /\ pc = "parse"
    /\ line = <<"x", "=", "1">>
    /\ errors = << <<"[", "b">> >>
    /\ section = <<>>
    /\ HasKey(sections, <<>>, <<"x">>)
    /\ <<"b">> \notin DOMAIN sections

\* C4 as claimed: after parse processes a well-formed header "[name]" the sections
\* map has an entry for name.
C4_HeaderEnsuresSection ==
    [][(ParseStep /\ WellFormedHeader(line')) => HeaderName(line') \in DOMAIN sections']_vars

\* C4 as the code has it: a well-formed header "[name]" makes name the current
\* section and leaves the sections map and the error log as they are; the entry for
\* the current section is ensured when a key=value line is processed.
C4_HeaderSetsCurrentSection ==
    [][/\ (ParseStep /\ WellFormedHeader(line'))
            => /\ section' = HeaderName(line')
               /\ sections' = sections
               /\ errors' = errors
       /\ (ParseStep /\ IsKeyValue(line')) => section \in DOMAIN sections']_vars

\* TextHeaders has been parsed to its end: its header "[t]", which no key=value line
\* followed, left no section t, while "[a]" with its "y=4" did.
C4_Witness ==
    /\ pc = "parse"
    /\ is = <<>>
    /\ line = <<"k", "=", "6">>
    /\ section = <<"b">>
    /\ <<"t">> \notin DOMAIN sections
    /\ HasKey(sections, <<"a">>, <<"y">>)

-----------------------------------------------------------------------------
(* Properties of interpolate *)

\* The step is the last iteration of interpolate's loop: the call returns, pre being
\* the sections map it was called on and sections' the one it leaves.
InterpolateReturns == pc = "interpolate" /\ pc' = "idle"

\* C5 as claimed: one interpolate call executes the global resolution pass at most
\* max_interpolation_depth (10) times.
C5_AtMostTenPasses == passes <= max_interpolation_depth

\* The index of the first ch of s, 0 if there is none.
FirstIndex(s, ch) ==
    IF \E i \in 1..Len(s) : s[i] = ch
    THEN CHOOSE i \in 1..Len(s) : s[i] = ch /\ \A j \in 1..(i - 1) : s[j] # ch
    ELSE 0

\* v starts with a placeholder "${...}".
StartsPlaceholder(v) ==
    Len(v) >= 3 /\ v[1] = "$" /\ v[2] = "{" /\ FirstIndex(v, "}") > 0

\* The name inside the placeholder v starts with, and the text after the placeholder.
PlaceholderName(v) == SubSeq(v, 3, FirstIndex(v, "}") - 1)
AfterPlaceholder(v) == SubSeq(v, FirstIndex(v, "}") + 1, Len(v))

\* In section n of the map p, the placeholder name refers to a key: name is a key of
\* n, or name is "section:key" for an existing section and key.
RefersLocal(p, n, name) == name \in DOMAIN p[n]
RefersGlobal(p, name) ==
    \E m \in DOMAIN p : \E k \in DOMAIN p[m] : name = m \o <<":">> \o k

\* The value name refers to.
Referred(p, n, name) ==
    IF RefersLocal(p, n, name) THEN p[n][name]
    ELSE LET m == CHOOSE m \in DOMAIN p : \E k \in DOMAIN p[m] : name = m \o <<":">> \o k
             k == CHOOSE k \in DOMAIN p[m] : name = m \o <<":">> \o k
         IN  p[m][k]

\* The values the placeholders of v, a value of section n, refer to.
RECURSIVE ReferredBy(_, _, _)
ReferredBy(p, n, v) ==
    IF v = <<>> THEN {}
    ELSE IF StartsPlaceholder(v)
            /\ (RefersLocal(p, n, PlaceholderName(v)) \/ RefersGlobal(p, PlaceholderName(v)))
    THEN {Referred(p, n, PlaceholderName(v))} \cup ReferredBy(p, n, AfterPlaceholder(v))
    ELSE ReferredBy(p, n, Tail(v))

\* v with each placeholder that refers to a key replaced by the value of that key.
RECURSIVE Resolved(_, _, _)
Resolved(p, n, v) ==
    IF v = <<>> THEN <<>>
    ELSE IF StartsPlaceholder(v)
            /\ (RefersLocal(p, n, PlaceholderName(v)) \/ RefersGlobal(p, PlaceholderName(v)))
    THEN Referred(p, n, PlaceholderName(v)) \o Resolved(p, n, AfterPlaceholder(v))
    ELSE <<Head(v)>> \o Resolved(p, n, Tail(v))

\* s contains the character ch.
HasChar(s, ch) == \E i \in 1..Len(s) : s[i] = ch

\* C6: when interpolate returns, every value whose placeholders refer only to values
\* free of placeholder text ('$') has each "${section:key}" naming an existing key,
\* and each "${key}" naming a key of its own section, replaced by that key's value.
C6_ReferencesResolved ==
    [][InterpolateReturns =>
          \A n \in DOMAIN pre : \A k \in DOMAIN pre[n] :
              (\A t \in ReferredBy(pre, n, pre[n][k]) : ~HasChar(t, "$"))
                  => sections'[n][k] = Resolved(pre, n, pre[n][k])]_vars

\* interpolate has returned on the sections of TextRefs: the reference to another
\* section and the reference to the own section are replaced by the values.
C6_Witness ==
    /\ pc = "idle"
    /\ last = "interpolate"
    /\ HasKey(pre, <<"n", "e", "t">>, <<"a", "d", "d", "r", "e", "s", "s">>)
    /\ pre[<<"n", "e", "t">>][<<"a", "d", "d", "r", "e", "s", "s">>] =
          <<"$", "{", "d", "e", "f", "a", "u", "l", "t", ":", "i", "p", "}", ":", "8", "0">>
    /\ sections[<<"n", "e", "t">>][<<"a", "d", "d", "r", "e", "s", "s">>] =
          <<"1", "2", "7", ".", "0", ".", "0", ".", "1", ":", "8", "0">>
    /\ pre[<<"s">>][<<"b">>] = <<"$", "{", "a", "}">>
    /\ pre[<<"s">>][<<"a">>] = <<"1">>
    /\ sections[<<"s">>][<<"b">>] = <<"1">>

\* The number of positions of s at which sub occurs.
Occurrences(s, sub) ==
    Cardinality({i \in 0..(Len(s) - Len(sub)) : SubSeq(s, i + 1, i + Len(sub)) = sub})

\* All the keys of a sections map.
AllKeys(p) == UNION {DOMAIN p[n] : n \in DOMAIN p}

\* C7: a bare reference "${k}" in a value of a section that has no key k is still
\* there when interpolate returns, also when another section has a key k.
C7_LocalReferencesScoped ==
    [][InterpolateReturns =>
          \A n \in DOMAIN pre : \A x \in DOMAIN pre[n] : \A k \in AllKeys(pre) \ DOMAIN pre[n] :
              Occurrences(sections'[n][x], <<"$", "{">> \o k \o <<"}">>)
                  >= Occurrences(pre[n][x], <<"$", "{">> \o k \o <<"}">>)]_vars

\* interpolate has returned on the sections of TextRefs: "${a}" in section t, which
\* has no key a, is untouched although section s has a key a (and resolved it).
C7_Witness ==
    /\ pc = "idle"
    /\ last = "interpolate"
    /\ HasKey(pre, <<"t">>, <<"d">>)
    /\ pre[<<"t">>][<<"d">>] = <<"$", "{", "a", "}">>
    /\ <<"a">> \notin DOMAIN pre[<<"t">>]
    /\ HasKey(pre, <<"s">>, <<"a">>)
    /\ sections[<<"t">>][<<"d">>] = <<"$", "{", "a", "}">>
    /\ sections[<<"s">>][<<"b">>] = <<"1">>

\* The map p holds the chain: v of section s1 .. s(ChainLen - 1) refers to v of the
\* next section, v of the last section is the literal "0".
HoldsChain(p) ==
    \A i \in 1..ChainLen :
        /\ HasKey(p, ChainName(i), <<"v">>)
        /\ p[ChainName(i)][<<"v">>] =
              IF i = ChainLen THEN <<"0">>
              ELSE <<"$", "{">> \o ChainName(i + 1) \o <<":", "v", "}">>

\* C8 as claimed: interpolate leaves an unresolved placeholder in the first value of
\* a chain of 15 sections.
C8_ChainUnresolved ==
    [][(InterpolateReturns /\ HoldsChain(pre))
          => HasChar(sections'[ChainName(1)][<<"v">>], "$")]_vars

\* C8 as the code has it: interpolate resolves the chain of 15 sections fully; every
\* v, the first included, is the literal when it returns.
C8_ChainResolved ==
    [][(InterpolateReturns /\ HoldsChain(pre))
          => \A i \in 1..ChainLen : sections'[ChainName(i)][<<"v">>] = <<"0">>]_vars

\* interpolate has returned on the chain and the first value is the literal.
C8_Witness ==
    /\ pc = "idle"
    /\ last = "interpolate"
    /\ HoldsChain(pre)
    /\ sections[ChainName(1)][<<"v">>] = <<"0">>

\* C9: an interpolate call returns after a bounded number of passes and never touches
\* the error log: every step of the call is one more pass and leaves the error log as
\* it is, and a call that has made max_interpolation_depth + 1 passes has returned.
C9_InterpolateTerminates ==
    /\ [](passes <= max_interpolation_depth + 1)
    /\ [](pc = "interpolate" => passes <= max_interpolation_depth)
    /\ [][pc = "interpolate" => (passes' = passes + 1 /\ errors' = errors)]_vars

\* interpolate has returned on the circular references of TextCycles after using all
\* its passes: the placeholders are still in the values, the error log is empty.
C9_Witness ==
    /\ pc = "idle"
    /\ last = "interpolate"
    /\ HasKey(pre, <<"c">>, <<"a">>)
    /\ pre[<<"c">>][<<"a">>] = <<"$", "{", "b", "}">>
    /\ pre[<<"c">>][<<"b">>] = <<"$", "{", "a", "}">>
    /\ passes = max_interpolation_depth + 1
    /\ sections[<<"c">>][<<"a">>] = <<"$", "{", "c", ":", "a", "}">>
    /\ sections[<<"c">>][<<"b">>] = <<"$", "{", "c", ":", "a", "}">>
    /\ errors = <<>>

-----------------------------------------------------------------------------
(* Properties of generate *)

\* The step is a call of generate.
GenerateStep == last' = "generate" /\ calls' = calls + 1

\* The index of the first insertion into section n.
FirstInsertion(n) ==
    CHOOSE i \in 1..Len(insertions) :
        insertions[i][1] = n /\ \A j \in 1..(i - 1) : insertions[j][1] # n

\* The section names in the order the sections were first inserted.
SectionsAsInserted ==
    LET names == {insertions[i][1] : i \in 1..Len(insertions)}
    IN  [r \in 1..Cardinality(names) |->
            CHOOSE n \in names :
                Cardinality({m \in names : FirstInsertion(m) < FirstInsertion(n)}) = r - 1]

\* The keys of section n in the order they were inserted.
KeysAsInserted(n) ==
    LET of_n == SelectSeq(insertions, LAMBDA pair : pair[1] = n)
    IN  [i \in 1..Len(of_n) |-> of_n[i][2]]

\* The strings of S in ascending order.
Ascending(S) ==
    [i \in 1..Cardinality(S) |->
        CHOOSE x \in S : Cardinality({y \in S : StrLess(y, x)}) = i - 1]

\* The "key=value" lines of sec for the keys ks.
RECURSIVE PairLines(_, _)
PairLines(sec, ks) ==
    IF ks = <<>> THEN <<>>
    ELSE Head(ks) \o <<"=">> \o sec[Head(ks)] \o <<"\n">> \o PairLines(sec, Tail(ks))

\* The blocks of the sections named: "[name]", the pairs in the order keys[name], and
\* a blank line.
RECURSIVE Blocks(_, _, _)
Blocks(secs, names, keys) ==
    IF names = <<>> THEN <<>>
    ELSE <<"[">> \o Head(names) \o <<"]", "\n">>
         \o PairLines(secs[Head(names)], keys[Head(names)])
         \o <<"\n">>
         \o Blocks(secs, Tail(names), keys)

\* C10 as claimed: generate emits the sections in the order they were first inserted
\* and the pairs of a section in the order its keys were inserted.
C10_InsertionOrder ==
    [][GenerateStep =>
          os' = Blocks(sections, SectionsAsInserted,
                       [n \in DOMAIN sections |-> KeysAsInserted(n)])]_vars

\* C10 as the code has it: generate emits the sections in ascending order of their
\* names and the pairs of a section in ascending order of its keys, each block being
\* "[name]", the pairs and a blank line.
C10_NameOrder ==
    [][GenerateStep =>
          os' = Blocks(sections, Ascending(DOMAIN sections),
                       [n \in DOMAIN sections |-> Ascending(DOMAIN sections[n])])]_vars

\* generate has been called on the sections of TextHeaders, inserted in the order
\* "", b, a with b's keys in the order y, x, k: a comes before b, and k before x and y.
C10_Witness ==
    /\ last = "generate"
    /\ SectionsAsInserted = << <<>>, <<"b">>, <<"a">> >>
    /\ KeysAsInserted(<<"b">>) = << <<"y">>, <<"x">>, <<"k">> >>
    /\ os = Text(<< <<"[", "]">>, <<"x", "=", "1">>, <<>>,
                    <<"[", "a", "]">>, <<"y", "=", "4">>, <<>>,
                    <<"[", "b", "]">>, <<"k", "=", "6">>, <<"x", "=", "3">>,
                    <<"y", "=", "2">>, <<>> >>)

-----------------------------------------------------------------------------
(* Properties of the round trip *)

\* No value of the map p contains '=', '[' or ']' or has whitespace at an end.
PlainValues(p) ==
    \A n \in DOMAIN p : \A k \in DOMAIN p[n] :
        /\ Trimmed(p[n][k])
        /\ ~HasChar(p[n][k], "=") /\ ~HasChar(p[n][k], "[") /\ ~HasChar(p[n][k], "]")

\* The Ini object holds what its first call, a parse, made of an empty Document.
FirstParseDone == pc = "idle" /\ last = "parse" /\ calls = 1

\* C11: when generate serializes the sections map that one parse made of an empty
\* Document, the values having no '=', '[', ']' and no whitespace at their ends,
\* parsing the written text into an empty Document gives the same sections map, the
\* section with the empty name included.
C11_RoundTrip ==
    [][(GenerateStep /\ FirstParseDone /\ PlainValues(sections))
          => parse(EmptyMap, <<>>, os').sections = sections]_vars

\* generate has written the sections parsed from TextHeaders, whose x=1 lives in the
\* section with the empty name: the text starts with "[]" and parses back to the map.
C11_Witness ==
    /\ last = "generate"
    /\ calls = 2
    /\ PlainValues(sections)
    /\ HasKey(sections, <<>>, <<"x">>)
    /\ HasKey(sections, <<"b">>, <<"k">>)
    /\ SubSeq(os, 1, 7) = <<"[", "]", "\n", "x", "=", "1", "\n">>
    /\ parse(EmptyMap, <<>>, os).sections = sections

-----------------------------------------------------------------------------
(* Properties of default_section *)

\* The step is a call of default_section.
DefaultSectionStep == last' = "default_section" /\ calls' = calls + 1

\* C12: a call of default_section with the defaults d leaves the set of section names
\* and the error log as they are; every section afterwards has its old keys with
\* their old values and, for each key of d it lacked, that key with d's value.
C12_DefaultsNonDestructive ==
    [][DefaultSectionStep =>
          \E d \in Defaults :
              /\ DOMAIN sections' = DOMAIN sections
              /\ errors' = errors
              /\ \A n \in DOMAIN sections :
                    /\ DOMAIN sections'[n] = DOMAIN sections[n] \cup DOMAIN d
                    /\ \A k \in DOMAIN sections[n] : sections'[n][k] = sections[n][k]
                    /\ \A k \in DOMAIN d \ DOMAIN sections[n] : sections'[n][k] = d[k]]_vars

\* default_section has been called on the sections parsed from TextKeys: a of the
\* empty-named section kept its 1 and got x = 1, a of s kept its 3; the rejected
\* lines are still in the error log.
C12_Witness ==
    /\ last = "default_section"
    /\ calls = 2
    /\ DOMAIN sections = {<<>>, <<"s">>}
    /\ sections[<<>>][<<"a">>] = <<"1">>
    /\ sections[<<>>][<<"x">>] = <<"1">>
    /\ sections[<<"s">>][<<"a">>] = <<"3">>
    /\ sections[<<"s">>][<<"x">>] = <<"1">>
    /\ Len(errors) = 3

-----------------------------------------------------------------------------
(* Properties of the current section *)

\* The name in the last well-formed header among the lines ls, or the empty name if
\* there is none.
RECURSIVE CurrentName(_)
CurrentName(ls) ==
    IF ls = <<>> THEN <<>>
    ELSE IF WellFormedHeader(ls[Len(ls)]) THEN HeaderName(ls[Len(ls)])
    ELSE CurrentName(SubSeq(ls, 1, Len(ls) - 1))

\* C13: in every step of a parse call, a key that the step inserts goes into the
\* section named by the last well-formed header among the lines the call has
\* processed before (the empty name if there is none, the same section a header "[]"
\* names), and every key that was in the sections map is still there with its value.
C13_CurrentSectionTracking ==
    [][ParseStep =>
          /\ \A n \in DOMAIN sections' : \A k \in DOMAIN sections'[n] :
                 ~HasKey(sections, n, k) => n = CurrentName(read)
          /\ \A n \in DOMAIN sections : \A k \in DOMAIN sections[n] :
                 HasKey(sections', n, k) /\ sections'[n][k] = sections[n][k]]_vars

\* TextReopen has been parsed to its end: k=1 from before any header and i=3 from
\* under "[]" are in the same section, s has k=2 from its first header and i=4 from
\* its second, and the k=5 under the second header was rejected.
C13_Witness ==
    /\ pc = "parse"
    /\ is = <<>>
    /\ calls = 1
    /\ Len(read) = 11
    /\ read[7] = <<"[", "]">>
    /\ sections = (<<>> :> ((<<"k">> :> <<"1">>) @@ (<<"i">> :> <<"3">>))) @@
                  (<<"s">> :> ((<<"k">> :> <<"2">>) @@ (<<"i">> :> <<"4">>)))
    /\ errors = << <<"k", "=", "5">> >>

\* The step is a call of parse.
ParseCallStep == pc = "idle" /\ pc' = "parse"

\* a is a prefix of b.
IsPrefix(a, b) == Len(a) <= Len(b) /\ SubSeq(b, 1, Len(a)) = a

\* C14: a call of parse starts with the empty name as current section and leaves the
\* sections map and the error log as the earlier calls left them; in every step of
\* the call the current section is the one named by the last well-formed header
\* among the lines of this call alone, the keys and values there were stay, and the
\* error log only grows at its end.
C14_SectionLocalToCall ==
    [][/\ ParseCallStep =>
            /\ section' = <<>>
            /\ sections' = sections
            /\ errors' = errors
       /\ ParseStep =>
            /\ section' = CurrentName(read')
            /\ IsPrefix(errors, errors')
            /\ \A n \in DOMAIN sections : \A k \in DOMAIN sections[n] :
                   HasKey(sections', n, k) /\ sections'[n][k] = sections[n][k]]_vars

\* TextHeaders was parsed, ending in section b, and the first line of a second call,
\* "a= 1" of TextKeys, has been processed: a went into the empty-named section, not
\* into b, and what the first call left is still there.
C14_Witness ==
    /\ pc = "parse"
    /\ calls = 2
    /\ read = << <<"a", "=", " ", "1">> >>
    /\ section = <<>>
    /\ sections[<<>>] = (<<"x">> :> <<"1">>) @@ (<<"a">> :> <<"1">>)
    /\ DOMAIN sections[<<"b">>] = {<<"x">>, <<"y">>, <<"k">>}
    /\ errors = << <<"[", "b">>, <<"x", "=", "5">> >>

-----------------------------------------------------------------------------
(* Properties of the lines parse skips or rejects *)

\* C15: a step of parse on a line that is empty once trimmed, or whose first character
\* once trimmed is the comment marker ';', leaves the sections map, the current
\* section and the error log as they are, whatever follows the marker.
C15_CommentAndBlankInert ==
    [][ParseStep =>
          /\ TrimOf(line', RawLine(is))
          /\ (line' = <<>> \/ line'[1] = ";")
                => /\ sections' = sections
                   /\ section' = section
                   /\ errors' = errors]_vars

\* In TextReopen the comments ";[t]" and ";i=9" and the line of one tab between them
\* have been processed under "[s]": s is still the current section, there is no
\* section t and no key i, and the error log is empty.
C15_Witness ==
    /\ pc = "parse"
    /\ calls = 1
    /\ Len(read) = 6
    /\ read[4] = <<";", "[", "t", "]">>
    /\ read[5] = <<>>
    /\ read[6] = <<";", "i", "=", "9">>
    /\ section = <<"s">>
    /\ sections = (<<>> :> (<<"k">> :> <<"1">>)) @@ (<<"s">> :> (<<"k">> :> <<"2">>))
    /\ errors = <<>>

\* ln is neither empty, a comment nor a header, and has no '=' or starts with it.
MalformedPair(ln) ==
    /\ ln # <<>>
    /\ ln[1] # ";"
    /\ ln[1] # "["
    /\ FirstAssign(ln) \in {0, 1}

\* What the rest of a parse call makes of the state st = [sections, errors, section]
\* and the unread stream.
RestOfCall(st, stream) ==
    parse_loop([sections |-> st[1], errors |-> st[2], section |-> st[3], ins |-> <<>>], stream)

\* C16: a step of parse on a line that is neither comment nor header and has no '='
\* or starts with '=' appends the line to the error log and leaves the sections map
\* and the current section as they are; the lines after it are then processed as
\* they would be without it: the rest of the call ends with the same sections map and
\* current section, and logs the same errors after this one, as it would starting
\* from the state before the line.
C16_MalformedPairSkipped ==
    [][(ParseStep /\ MalformedPair(line'))
          => /\ errors' = Append(errors, line')
             /\ sections' = sections
             /\ section' = section
             /\ LET with    == RestOfCall(<<sections', errors', section'>>, is')
                    without == RestOfCall(<<sections, errors, section>>, is')
                IN  /\ with.sections = without.sections
                    /\ with.section = without.section
                    /\ with.errors = errors' \o SubSeq(without.errors, Len(errors) + 1,
                                                       Len(without.errors))]_vars

\* TextKeys has been parsed to its end: "=z" and "bad" are in the error log after the
\* duplicate, there is no empty key, and the lines after them were processed: section
\* s has its a=3.
C16_Witness ==
    /\ pc = "parse"
    /\ is = <<>>
    /\ calls = 1
    /\ errors = << <<"a", " ", "=", " ", "2">>, <<"=", "z">>, <<"b", "a", "d">> >>
    /\ DOMAIN sections[<<>>] = {<<"a">>, <<"b">>, <<"c">>}
    /\ section = <<"s">>
    /\ sections[<<"s">>] = (<<"a">> :> <<"3">>)

-----------------------------------------------------------------------------
(* Properties of the error log *)

\* The step is a call of clear.
ClearStep == last' = "clear" /\ calls' = calls + 1

\* parse rejects the trimmed line ln when the sections map is secs and the current
\* section is cur: a malformed header, a line without '=' or with an empty key, or a
\* pair whose key is in the current section already.
Rejected(ln, secs, cur) ==
    \/ MalformedHeader(ln)
    \/ MalformedPair(ln)
    \/ IsKeyValue(ln) /\ HasKey(secs, cur, KeyOf(ln))

\* C17: in every step but a call of clear the old error log is a prefix of the new
\* one; a step of parse appends the trimmed line it read if it rejects it and nothing
\* otherwise, so that the entries come in input order; every other step but a call of
\* clear (of interpolate, default_section, generate) leaves the log as it is; and a
\* call of clear leaves the sections map and the error log empty.
C17_ErrorLogAppendOnly ==
    [][/\ ~ClearStep => IsPrefix(errors, errors')
       /\ ParseStep =>
            /\ TrimOf(line', RawLine(is))
            /\ errors' = IF Rejected(line', sections, CurrentName(read))
                         THEN Append(errors, line') ELSE errors
       /\ (~ClearStep /\ ~ParseStep) => errors' = errors
       /\ ClearStep => (sections' = EmptyMap /\ errors' = <<>>)]_vars

\* TextKeys was parsed, default_section was called (s has its x from there), and
\* TextHeaders has been parsed to its end: the log has the three lines rejected by the
\* first parse and after them, in input order, the malformed header, the x=1 that
\* met the default x, and the duplicate x=5 of the second.
C17_Witness ==
    /\ pc = "parse"
    /\ is = <<>>
    /\ calls = 3
    /\ HasKey(sections, <<"s">>, <<"x">>)
    /\ HasKey(sections, <<"b">>, <<"k">>)
    /\ errors = << <<"a", " ", "=", " ", "2">>, <<"=", "z">>, <<"b", "a", "d">>,
                   <<"[", "b">>, <<"x", "=", "1">>, <<"x", "=", "5">> >>

-----------------------------------------------------------------------------
(* Properties of the symbol patterns *)

\* The name k is the beginning of the longer name k2.
ProperPrefix(k, k2) == Len(k) < Len(k2) /\ SubSeq(k2, 1, Len(k)) = k

\* C18 as claimed: for keys b and bc of a section a, detail::replace with the pattern
\* "${a:b}" finds a match in the placeholder "${a:bc}" and rewrites it with the value
\* of b.
C18_PrefixOverMatch ==
    [][InterpolateReturns =>
          \A n \in DOMAIN pre : \A k \in DOMAIN pre[n] : \A k2 \in DOMAIN pre[n] :
              ProperPrefix(k, k2)
                  => replace(global_symbol(n, k2), global_symbol(n, k), pre[n][k]).changed]_vars

\* C18 as the code has it: the closing '}' is part of every pattern, so for keys b and
\* bc of a section a (bc without '}') neither "${a:b}" occurs in "${a:bc}" nor "${b}"
\* in "${bc}";
\* when interpolate returns, a value that was "${a:bc}" or "${bc}" is the value of bc
\* (if that has no '$'), and a placeholder "${a:bX}" that names no key is untouched.
C18_NoPrefixOverMatch ==
    [][InterpolateReturns =>
          \A n \in DOMAIN pre : \A k \in DOMAIN pre[n] : \A k2 \in DOMAIN pre[n] :
              (ProperPrefix(k, k2) /\ ~HasChar(k2, "}")) =>
                  /\ find(global_symbol(n, k2), global_symbol(n, k), 0) = npos
                  /\ find(local_symbol(k2), local_symbol(k), 0) = npos
                  /\ ~replace(global_symbol(n, k2), global_symbol(n, k), pre[n][k]).changed
                  /\ \A x \in DOMAIN pre[n] :
                        /\ (pre[n][x] \in {global_symbol(n, k2), local_symbol(k2)}
                              /\ ~HasChar(pre[n][k2], "$"))
                                => sections'[n][x] = pre[n][k2]
                        /\ (\E c \in DOMAIN Ord :
                                 /\ pre[n][x] = global_symbol(n, Append(k, c))
                                 /\ ~RefersGlobal(pre, n \o <<":">> \o Append(k, c))
                                 /\ ~RefersLocal(pre, n, n \o <<":">> \o Append(k, c)))
                                => sections'[n][x] = pre[n][x]]_vars

\* interpolate has returned on the sections of TextRefs: r and u of section a, which
\* were "${a:bc}" and "${bc}", are the value 2 of bc, not rewritten with the 1 of b, and
\* "${a:bd}" is as it was.
C18_Witness ==
    /\ pc = "idle"
    /\ last = "interpolate"
    /\ HasKey(pre, <<"a">>, <<"r">>)
    /\ pre[<<"a">>][<<"b">>] = <<"1">>
    /\ pre[<<"a">>][<<"b", "c">>] = <<"2">>
    /\ pre[<<"a">>][<<"r">>] = <<"$", "{", "a", ":", "b", "c", "}">>
    /\ pre[<<"a">>][<<"u">>] = <<"$", "{", "b", "c", "}">>
    /\ sections[<<"a">>][<<"r">>] = <<"2">>
    /\ sections[<<"a">>][<<"u">>] = <<"2">>
    /\ sections[<<"a">>][<<"v">>] = <<"$", "{", "a", ":", "b", "d", "}">>

-----------------------------------------------------------------------------
(* Properties of what interpolate leaves alone *)

\* The maps p and q have the same section names and, in each section, the same keys.
SameKeys(p, q) ==
    /\ DOMAIN p = DOMAIN q
    /\ \A n \in DOMAIN p : DOMAIN p[n] = DOMAIN q[n]

\* The step belongs to a call of interpolate: the call itself with its localization
\* loop, or one pass of the do-while loop.
InterpolateStep == pc' = "interpolate" \/ pc = "interpolate"

\* C19: every step of an interpolate call leaves the set of section names and the set
\* of keys of every section as they are, and when the call returns they are those of
\* the sections map it was called on.
C19_InterpolateKeepsKeys ==
    [][/\ InterpolateStep => SameKeys(sections, sections')
       /\ InterpolateReturns => SameKeys(pre, sections')]_vars

\* interpolate has returned on the sections of TextCycles: x of section z, which was
\* "x${x}", has grown to 2054 characters and the values of c have changed, and the
\* sections and keys are those of before.
C19_Witness ==
    /\ pc = "idle"
    /\ last = "interpolate"
    /\ DOMAIN pre = {<<"c">>, <<"z">>}
    /\ pre[<<"z">>][<<"x">>] = <<"x", "$", "{", "x", "}">>
    /\ Len(sections[<<"z">>][<<"x">>]) = 2054
    /\ sections[<<"c">>][<<"a">>] # pre[<<"c">>][<<"a">>]
    /\ DOMAIN sections = {<<"c">>, <<"z">>}
    /\ DOMAIN sections[<<"c">>] = {<<"a">>, <<"b">>}
    /\ DOMAIN sections[<<"z">>] = {<<"x">>}

-----------------------------------------------------------------------------
(* Properties of the parsed Document *)

\* No member function but parse has been called.
OnlyParseCalled == \A i \in 1..Len(trace) : trace[i] = "parse"

\* k is not empty, has no whitespace at either end, has no '=' and does not begin
\* with '[' or with the comment marker.
WellFormedKey(k) ==
    /\ k # <<>>
    /\ Trimmed(k)
    /\ ~HasChar(k, "=")
    /\ k[1] # "["
    /\ k[1] # ";"

\* C20: as long as only parse has been called on the Ini object, before, during and
\* after its calls, every key of the sections map is not empty, has no whitespace at
\* its ends, has no '=' and begins neither with '[' nor with ';', and every value has
\* no whitespace at its ends.
C20_ParsedWellFormed ==
    OnlyParseCalled =>
        \A n \in DOMAIN sections : \A k \in DOMAIN sections[n] :
            WellFormedKey(k) /\ Trimmed(sections[n][k])

\* TextReopen and then TextKeys have been parsed: i of s came from "\ti = 4 ", a of
\* the empty-named section from "a= 1", b has the '=' of its value and c is empty.
C20_Witness ==
    /\ pc = "idle"
    /\ trace = <<"parse", "parse">>
    /\ HasKey(sections, <<"s">>, <<"i">>)
    /\ sections[<<"s">>] = (<<"k">> :> <<"2">>) @@ (<<"i">> :> <<"4">>) @@ (<<"a">> :> <<"3">>)
    /\ sections[<<>>] = (<<"k">> :> <<"1">>) @@ (<<"i">> :> <<"3">>) @@ (<<"a">> :> <<"1">>)
                        @@ (<<"b">> :> <<"x", "=", "y">>) @@ (<<"c">> :> <<>>)

====
